---- MODULE Spec2Model ----
(***************************************************************************)
(* The notebook mlops-seed-code/model-deploy/sagemaker-model-deploy.ipynb  *)
(* run cell by cell, together with the remote services it drives: the      *)
(* model registry and the IrisPipeline (SageMaker), the model deployment   *)
(* CI/CD pipeline (CodePipeline) and the deployment stack sets             *)
(* (CloudFormation).  The notebook is one sequential process (pc); the     *)
(* remote services progress asynchronously by their own actions.           *)
(***************************************************************************)
EXTENDS Integers, Sequences, FiniteSets, TLC

(* ------------------------------ bounds -------------------------------- *)

\* project names of NameLimit - NameSlack .. NameLimit + NameSlack characters
NameSlack == 1
\* SDK calls that fail in one run
MaxFaults == 1
\* model packages already in the group when the run starts
MaxOldPackages == 2
\* ModelPackageSummaryList entries per page of list_model_packages
PageSize == 2
\* sleeps of one wait loop
MaxPolls == 2
\* accounts a stack set has stack instances in
MaxAccounts == 2

(* ------------------------- program constants -------------------------- *)

\* assert(len(project_name) <= 15)
NameLimit == 15

\* ssm_parameters: the VariableName of every entry, in order
ssm_parameters ==
    << "DataBucketName", "ModelBucketName", "S3VPCEId", "S3KmsKeyId",
       "EbsKmsKeyArn", "PipelineExecutionRole", "ModelExecutionRole",
       "StackSetExecutionRole", "StackSetAdministrationRole",
       "StagingAccountList", "ProdAccountList", "EnvTypeStagingName",
       "EnvTypeProdName" >>

\* The pipeline parameter with the default "Approved".
model_approval_status_approved == "Approved"

\* ParameterString(name="ModelApprovalStatus", default_value=...)
model_approval_status == "PendingManualApproval"

\* The value the parameter store holds for a variable.  Only the two
\* environment type names are told apart: they end up in stack set names.
SsmValue(v) ==
    CASE v = "EnvTypeStagingName" -> "staging"
      [] v = "EnvTypeProdName"    -> "prod"
      [] OTHER                    -> "value"

ApprovalStatuses == {"PendingManualApproval", "Approved", "Rejected"}

\* The actions of the CI/CD pipeline, in the order it runs them.
CicdActions ==
    << "DeployStaging", "TestStaging", "ApproveStagingDeployment", "DeployProd" >>

ActionNames == {CicdActions[i] : i \in 1..Len(CicdActions)}

ActionStatuses == {"None", "InProgress", "Succeeded", "Failed"}

\* The stage an action belongs to.
StageOf(a) == IF a = "DeployProd" THEN "DeployModelProd" ELSE "DeployModelStaging"

\* The stack sets the CI/CD pipeline deploys to.
StagingStackSet == "deploy-staging"
ProdStackSet == "deploy-prod"
StackSets == {StagingStackSet, ProdStackSet}

\* The accounts the CI/CD pipeline deploys a stack set to (the staging and
\* production account lists of the environment).
AccountList(s) == IF s = StagingStackSet THEN {1} ELSE 1..MaxAccounts

VARIABLES
    \* the notebook's control state
    pc,                 \* the statement the notebook is at
    err,                \* the exception that ended the run, "" while none
    failedCalls,        \* call sites whose SDK call raised
    faults,             \* SDK calls that failed though the request was valid
    ssmFailed,          \* variables whose ssm.get_parameter raised
    calls,              \* call sites whose SDK call was issued
    printed,            \* completion messages printed
    \* the notebook's variables
    project_name,       \* len(project_name)
    env_data,           \* i / env_data: VariableName -> value
    prefix,             \* whether prefix is defined
    next_token,         \* pages of list_model_packages read so far
    model_packages,     \* the summaries collected from the pages read
    latest_model_package_arn,
    polls,              \* sleeps of the current wait loop
    ss_i,               \* index of the clean-up loop
    accounts,           \* accounts of the clean-up loop
    \* SageMaker
    registry,           \* the model package group, in creation order
    mlExec,             \* the IrisPipeline execution of this run
    \* CodePipeline
    actionStatus,       \* latestExecution status per action, "None" if absent
    cicd,               \* the CI/CD execution launched in this run
    cicdLog,            \* what that execution did, in order
    \* CloudFormation
    stackSetExists, stackInstances, deleting,
    cfLog               \* the clean-up's calls in the order issued

ctlVars == << pc, err, failedCalls, faults, ssmFailed, calls, printed >>
nbVars == << project_name, env_data, prefix, next_token, model_packages,
             latest_model_package_arn, polls, ss_i, accounts >>
smVars == << registry, mlExec >>
cpVars == << actionStatus, cicd, cicdLog >>
cfVars == << stackSetExists, stackInstances, deleting, cfLog >>
vars == << ctlVars, nbVars, smVars, cpVars, cfVars >>

(* ----------------------------- helpers -------------------------------- *)

\* Further SDK calls may still be made to fail in this run.
FaultBudget == faults < MaxFaults

\* get_environment without its try/except: no call site is guarded.
CaughtNowhere(site) == FALSE

\* The call sites with a try/except around them: the get_parameter call of
\* get_environment's loop is the only one.
Caught(site) == site = "get_parameter"

\* The call sites of the notebook that call a remote service.
SdkSites ==
    { "describe_project", "describe_domain", "list_tags", "get_parameter",
      "get_session", "describe_project_id", "upload_train", "upload_test",
      "upsert", "add_tags", "start", "describe", "wait",
      "list_model_packages", "update_model_package", "get_pipeline_state",
      "staging_poll", "prod_poll", "list_stack_instances",
      "delete_stack_instances", "delete_stack_set" }

\* The calls that create or change something remote.
CreatingSites ==
    { "upload_train", "upload_test", "upsert", "add_tags", "start",
      "update_model_package", "delete_stack_instances", "delete_stack_set" }

\* A statement raises: the run stops there.
Raise(e) ==
    /\ pc' = "failed"
    /\ err' = e

\* The call at `site` returns and the notebook goes on to `next`.
Returns(site, next) ==
    /\ pc = site
    /\ pc' = next
    /\ calls' = calls \cup {site}
    /\ UNCHANGED << err, failedCalls, faults, ssmFailed, printed >>

\* The call at `site` raises and nothing handles it.
Propagates(site) ==
    /\ pc = site
    /\ Raise(site)
    /\ calls' = calls \cup {site}
    /\ failedCalls' = failedCalls \cup {site}
    /\ UNCHANGED << faults, ssmFailed, printed >>

\* The assertion off by one: a name of NameLimit + 1 characters passes.
AssertHoldsOffByOne(n) == n <= NameLimit + 1

\* assert(len(project_name) <= 15)
AssertHolds(n) == n <= NameLimit

\* The event rule on model package state changes: what launches the CI/CD
\* pipeline.  `old` is "" for a package that is being registered.
LaunchesDeployment(old, new) == new = "Approved" /\ old # "Approved"

\* The CI/CD execution of this run after a package went from `old` to `new`.
Launched(old, new) ==
    IF LaunchesDeployment(old, new) /\ cicd = "idle" THEN "triggered" ELSE cicd

(* ------------------------------- Init --------------------------------- *)

\* What earlier executions of the CI/CD pipeline left behind: none, one that
\* deployed to production, or one whose staging deployment was rejected.
OldRuns == {"never", "succeeded", "rejected"}

OldActionStatus(run) ==
    [a \in ActionNames |->
        CASE run = "never"     -> "None"
          [] run = "succeeded" -> "Succeeded"
          [] run = "rejected"  ->
                IF a = "ApproveStagingDeployment" THEN "Failed"
                ELSE IF a = "DeployProd" THEN "None" ELSE "Succeeded"]

OldStackSetExists(run) ==
    [s \in StackSets |->
        \/ run = "succeeded"
        \/ run = "rejected" /\ s = StagingStackSet]

Init ==
    /\ pc = "describe_project"
    /\ err = ""
    /\ failedCalls = {}
    /\ faults = 0
    /\ ssmFailed = {}
    /\ calls = {}
    /\ printed = {}
    /\ project_name \in (NameLimit - NameSlack)..(NameLimit + NameSlack)
    /\ env_data = << >>
    /\ prefix = FALSE
    /\ next_token = 0
    /\ model_packages = << >>
    /\ latest_model_package_arn = 0
    /\ polls = 0
    /\ ss_i = 0
    /\ accounts = {}
    /\ \E n \in 0..MaxOldPackages :
          registry \in [1..n -> [ModelApprovalStatus : ApprovalStatuses \ {"Rejected"}]]
    /\ mlExec = "none"
    /\ cicd = "idle"
    /\ cicdLog = << >>
    /\ cfLog = << >>
    /\ \E run \in OldRuns :
          /\ actionStatus = OldActionStatus(run)
          /\ stackSetExists = OldStackSetExists(run)
          /\ stackInstances =
                [s \in StackSets |->
                    IF OldStackSetExists(run)[s] THEN AccountList(s) ELSE {}]
    /\ deleting = [s \in StackSets |-> {}]

(* --------------------- get_environment (cell 2) ----------------------- *)

\* sm.describe_project(ProjectName=project_name)["CreatedBy"]["DomainId"]
DescribeProject ==
    /\ Returns("describe_project", "describe_domain")
    /\ UNCHANGED << nbVars, smVars, cpVars, cfVars >>

\* r = sm.describe_domain(DomainId=...)
DescribeDomain ==
    /\ Returns("describe_domain", "list_tags")
    /\ UNCHANGED << nbVars, smVars, cpVars, cfVars >>

\* sm.list_tags(ResourceArn=r["DomainArn"])["Tags"]
ListTags ==
    /\ Returns("list_tags", "get_parameter")
    /\ UNCHANGED << nbVars, smVars, cpVars, cfVars >>

\* The variable the next turn of `for p in ssm_params` loads.
NextParameter == ssm_parameters[Cardinality(DOMAIN env_data) + 1]

\* The statement after the turn of the loop that loads NextParameter.
AfterParameter ==
    IF Cardinality(DOMAIN env_data) + 1 = Len(ssm_parameters)
    THEN "get_session" ELSE "get_parameter"

\* One turn of the loop: try: i[p["VariableName"]] = ssm.get_parameter(...)
\* except: i[p["VariableName"]] = "".  env_data holds the variables the loop
\* has loaded.
GetParameter ==
    /\ pc = "get_parameter"
    /\ calls' = calls \cup {"get_parameter"}
    /\ \/ /\ env_data' = (NextParameter :> SsmValue(NextParameter)) @@ env_data
          /\ pc' = AfterParameter
          /\ UNCHANGED << err, failedCalls, faults, ssmFailed >>
       \/ /\ FaultBudget
          /\ faults' = faults + 1
          /\ IF Caught("get_parameter")
             THEN /\ env_data' = (NextParameter :> "") @@ env_data
                  /\ ssmFailed' = ssmFailed \cup {NextParameter}
                  /\ pc' = AfterParameter
                  /\ UNCHANGED << err, failedCalls >>
             ELSE /\ Raise("get_parameter")
                  /\ failedCalls' = failedCalls \cup {"get_parameter"}
                  /\ UNCHANGED << env_data, ssmFailed >>
    /\ UNCHANGED << printed, project_name, prefix, next_token, model_packages,
                    latest_model_package_arn, polls, ss_i, accounts,
                    smVars, cpVars, cfVars >>

(* ------------------- session and names (cell 3) ----------------------- *)

\* sagemaker_session = get_session(...); data_bucket = ...default_bucket()
GetSession ==
    /\ Returns("get_session", "describe_project_id")
    /\ UNCHANGED << nbVars, smVars, cpVars, cfVars >>

\* project_id = sm.describe_project(ProjectName=project_name)['ProjectId']
DescribeProjectId ==
    /\ Returns("describe_project_id", "assert")
    /\ UNCHANGED << nbVars, smVars, cpVars, cfVars >>

\* assert(len(project_name) <= 15); prefix = f"{project_name}-{project_id}"
AssertNameLength ==
    /\ pc = "assert"
    /\ IF AssertHolds(project_name)
       THEN /\ prefix' = TRUE
            /\ pc' = "upload_train"
            /\ UNCHANGED err
       ELSE /\ Raise("AssertionError")
            /\ UNCHANGED prefix
    /\ UNCHANGED << failedCalls, faults, ssmFailed, calls, printed, project_name,
                    env_data, next_token, model_packages,
                    latest_model_package_arn, polls, ss_i, accounts,
                    smVars, cpVars, cfVars >>

(* ------------------ dataset and IrisPipeline cells -------------------- *)

\* input_train = sagemaker_session.upload_data(path='iris_train.csv', ...)
UploadTrain ==
    /\ prefix
    /\ Returns("upload_train", "upload_test")
    /\ UNCHANGED << nbVars, smVars, cpVars, cfVars >>

\* input_test = sagemaker_session.upload_data(path='iris_test.csv', ...)
UploadTest ==
    /\ Returns("upload_test", "upsert")
    /\ UNCHANGED << nbVars, smVars, cpVars, cfVars >>

\* response = pipeline.upsert(role_arn=pipeline_role)
Upsert ==
    /\ Returns("upsert", "add_tags")
    /\ UNCHANGED << nbVars, smVars, cpVars, cfVars >>

\* sm.add_tags(ResourceArn=pipeline_arn, Tags=[...])
AddTags ==
    /\ Returns("add_tags", "start")
    /\ UNCHANGED << nbVars, smVars, cpVars, cfVars >>

\* execution = pipeline.start(): the execution runs remotely from here on.
Start ==
    /\ Returns("start", "describe")
    /\ mlExec' = "Executing"
    /\ UNCHANGED << nbVars, registry, cpVars, cfVars >>

\* execution.describe()
Describe ==
    /\ Returns("describe", "wait")
    /\ UNCHANGED << nbVars, smVars, cpVars, cfVars >>

\* A wait that returns at once, whatever the execution's status.
WaitReturnsAtOnce(status) == TRUE

\* execution.wait() returns once the execution has this status.
WaitReturns(status) == status = "Succeeded"

\* execution.wait(): returns when the execution succeeded; raises when it
\* failed, and when it is still executing after the last attempt.
ExecutionWait ==
    /\ pc = "wait"
    /\ \/ /\ WaitReturns(mlExec)
          /\ Returns("wait", "list_model_packages")
       \/ /\ ~WaitReturns(mlExec)
          /\ Propagates("wait")
    /\ UNCHANGED << nbVars, smVars, cpVars, cfVars >>

\* The IrisPipeline execution succeeds: IrisTrain, then IrisRegisterModel
\* registers a package with approval_status=model_approval_status.
MlPipelineSucceeds ==
    /\ mlExec = "Executing"
    /\ mlExec' = "Succeeded"
    /\ registry' = Append(registry, [ModelApprovalStatus |-> model_approval_status])
    /\ cicd' = Launched("", model_approval_status)
    /\ UNCHANGED << ctlVars, nbVars, actionStatus, cicdLog, cfVars >>

\* The IrisPipeline execution fails: nothing is registered.
MlPipelineFails ==
    /\ mlExec = "Executing"
    /\ mlExec' = "Failed"
    /\ UNCHANGED << ctlVars, nbVars, registry, cpVars, cfVars >>

(* ------------------------- approval cells ----------------------------- *)

\* The summaries of the group's packages sorted by creation time.  A
\* package's ARN and creation time are its place in the registry.
SortedSummaries(order) ==
    [k \in 1..Len(registry) |->
        LET n == IF order = "Descending" THEN Len(registry) + 1 - k ELSE k
        IN  [ModelPackageArn |-> n, CreationTime |-> n,
             ModelApprovalStatus |-> registry[n].ModelApprovalStatus]]

\* paginate(ModelPackageGroupName=..., SortBy="CreationTime", SortOrder=...)
Listing == SortedSummaries("Descending")

\* p["ModelPackageSummaryList"] of the k-th page: PageSize summaries, the last
\* page the rest; an empty group has one page, which is empty.
Page(k) ==
    SubSeq(Listing, (k - 1) * PageSize + 1,
           IF k * PageSize < Len(Listing) THEN k * PageSize ELSE Len(Listing))

\* One turn of `for p in ...paginate(...)`: model_packages.extend(...)
ListModelPackages ==
    /\ pc = "list_model_packages"
    /\ calls' = calls \cup {"list_model_packages"}
    /\ model_packages' =
          (IF next_token = 0 THEN << >> ELSE model_packages) \o Page(next_token + 1)
    /\ IF (next_token + 1) * PageSize < Len(Listing)
       THEN /\ next_token' = next_token + 1
            /\ pc' = pc
       ELSE /\ next_token' = 0
            /\ pc' = "select"
    /\ UNCHANGED << err, failedCalls, faults, ssmFailed, printed, project_name,
                    env_data,
                    prefix, latest_model_package_arn, polls, ss_i,
                    accounts, smVars, cpVars, cfVars >>

\* The emptiness test never taken: the raise is skipped.
NoPackageFoundNever(mp) == FALSE

\* if len(model_packages) == 0:
NoPackageFound(mp) == Len(mp) = 0

\* model_packages[-1]: the last summary collected instead of the first.
LastOf(mp) == mp[Len(mp)].ModelPackageArn

\* model_packages[0]["ModelPackageArn"]
LatestOf(mp) == mp[1].ModelPackageArn

\* if len(model_packages) == 0: raise Exception(...)
\* latest_model_package_arn = model_packages[0]["ModelPackageArn"]
SelectLatest ==
    /\ pc = "select"
    /\ IF NoPackageFound(model_packages)
       THEN /\ Raise("NoModelPackage")
            /\ UNCHANGED latest_model_package_arn
       ELSE IF Len(model_packages) = 0
       THEN /\ Raise("IndexError")
            /\ UNCHANGED latest_model_package_arn
       ELSE /\ latest_model_package_arn' = LatestOf(model_packages)
            /\ pc' = "update_model_package"
            /\ UNCHANGED err
    /\ UNCHANGED << failedCalls, faults, ssmFailed, calls, printed, project_name,
                    env_data, prefix, next_token, model_packages, polls,
                    ss_i, accounts, smVars, cpVars, cfVars >>

\* sm.update_model_package(ModelPackageArn=latest_model_package_arn,
\*                         ModelApprovalStatus="Approved")
UpdateModelPackage ==
    /\ Returns("update_model_package", "get_pipeline_state")
    /\ registry' = [registry EXCEPT
                      ![latest_model_package_arn].ModelApprovalStatus = "Approved"]
    /\ cicd' = Launched(registry[latest_model_package_arn].ModelApprovalStatus,
                        "Approved")
    /\ UNCHANGED << nbVars, mlExec, actionStatus, cicdLog, cfVars >>

(* ------------------------- CI/CD pipeline ----------------------------- *)

\* A pipeline without the approval gate: DeployProd follows the test.
NextActionUngated(a) ==
    CASE a = "DeployStaging" -> "TestStaging"
      [] a = "TestStaging"   -> "DeployProd"
      [] OTHER               -> ""

\* The action the pipeline runs after action a, "" after the last one.
NextAction(a) ==
    LET i == CHOOSE k \in 1..Len(CicdActions) : CicdActions[k] = a
    IN  IF i < Len(CicdActions) THEN CicdActions[i + 1] ELSE ""

\* The stack set an action deploys to, "" if it deploys nothing.
DeploysTo(a) ==
    CASE a = "DeployStaging" -> StagingStackSet
      [] a = "DeployProd"    -> ProdStackSet
      [] OTHER               -> ""

\* The execution's current action ends with `result`.
Completes(a, result) ==
    /\ cicd = a
    /\ cicdLog' = Append(cicdLog, << a, result >>)
    /\ IF result = "Succeeded" /\ NextAction(a) # ""
       THEN /\ cicd' = NextAction(a)
            /\ actionStatus' = [actionStatus EXCEPT ![a] = "Succeeded",
                                                    ![NextAction(a)] = "InProgress"]
       ELSE /\ cicd' = IF result = "Succeeded" THEN "succeeded" ELSE "failed"
            /\ actionStatus' = [actionStatus EXCEPT ![a] = result]

\* The event rule starts an execution: its first action is in progress.
CicdStarts ==
    /\ cicd = "triggered"
    /\ cicd' = CicdActions[1]
    /\ actionStatus' = [actionStatus EXCEPT ![CicdActions[1]] = "InProgress"]
    /\ UNCHANGED << ctlVars, nbVars, smVars, cicdLog, cfVars >>

\* A deployment action succeeds: its stack set has stack instances.
CicdDeploySucceeds ==
    \E a \in {"DeployStaging", "DeployProd"} :
        /\ Completes(a, "Succeeded")
        /\ stackSetExists' = [stackSetExists EXCEPT ![DeploysTo(a)] = TRUE]
        /\ stackInstances' = [stackInstances EXCEPT ![DeploysTo(a)] = AccountList(DeploysTo(a))]
        /\ deleting' = [deleting EXCEPT ![DeploysTo(a)] = {}]
        /\ UNCHANGED << ctlVars, nbVars, smVars, cfLog >>

\* The test on the staging endpoint succeeds.
CicdTestSucceeds ==
    /\ Completes("TestStaging", "Succeeded")
    /\ UNCHANGED << ctlVars, nbVars, smVars, cfVars >>

\* A deployment or the test fails: the execution ends.
CicdActionFails ==
    \E a \in {"DeployStaging", "TestStaging", "DeployProd"} :
        /\ Completes(a, "Failed")
        /\ UNCHANGED << ctlVars, nbVars, smVars, cfVars >>

\* Someone approves the staging deployment in the CodePipeline console.
ManualApprove ==
    /\ Completes("ApproveStagingDeployment", "Succeeded")
    /\ UNCHANGED << ctlVars, nbVars, smVars, cfVars >>

\* Someone rejects the staging deployment: the execution ends.
ManualReject ==
    /\ Completes("ApproveStagingDeployment", "Failed")
    /\ UNCHANGED << ctlVars, nbVars, smVars, cfVars >>

(* ---------------------------- wait loops ------------------------------ *)

\* An element of actionStates: latestExecution is absent (the empty set) for
\* an action that never ran.
ActionState(a) ==
    [actionName |-> a,
     latestExecution |->
        IF actionStatus[a] = "None" THEN {} ELSE {[status |-> actionStatus[a]]}]

\* cp.get_pipeline_state(name=code_pipeline_name)["stageStates"]
StageStates ==
    << [stageName |-> "DeployModelStaging",
        actionStates |-> << ActionState("DeployStaging"), ActionState("TestStaging"),
                            ActionState("ApproveStagingDeployment") >>],
       [stageName |-> "DeployModelProd",
        actionStates |-> << ActionState("DeployProd") >>] >>

\* len([a for a in [s for s in stageStates if s["stageName"] == stage][0]
\*      ["actionStates"] if a["actionName"] == action
\*      and a.get("latestExecution") and a.get("latestExecution")["status"] == status])
Matching(stageStates, stage, action, status) ==
    Len(SelectSeq(
            SelectSeq(stageStates, LAMBDA s : s.stageName = stage)[1].actionStates,
            LAMBDA a : /\ a.actionName = action
                       /\ a.latestExecution # {}
                       /\ \A e \in a.latestExecution : e.status = status))

\* The staging loop's filter without its test of the action's name: any
\* action of the stage that is in progress ends the loop.
StagingReachedAnyAction(stageStates) ==
    \E i \in 1..Len(stageStates) :
        /\ stageStates[i].stageName = "DeployModelStaging"
        /\ \E j \in 1..Len(stageStates[i].actionStates) :
              stageStates[i].actionStates[j].latestExecution = {[status |-> "InProgress"]}

\* The staging loop's condition is false: it exits.
StagingReached(stageStates) ==
    Matching(stageStates, "DeployModelStaging", "ApproveStagingDeployment",
             "InProgress") # 0

\* The production loop's condition is false: it exits.
ProdReached(stageStates) ==
    Matching(stageStates, "DeployModelProd", "DeployProd", "Succeeded") # 0

\* r = cp.get_pipeline_state(name=code_pipeline_name)
GetPipelineState ==
    /\ Returns("get_pipeline_state", "staging_poll")
    /\ UNCHANGED << nbVars, smVars, cpVars, cfVars >>

\* The staging loop evaluates its condition: one get_pipeline_state.
StagingPoll ==
    /\ Returns("staging_poll",
               IF StagingReached(StageStates) THEN "staging_done" ELSE "staging_sleep")
    /\ UNCHANGED << project_name, env_data, prefix, next_token, model_packages,
                    latest_model_package_arn, polls, ss_i, accounts,
                    smVars, cpVars, cfVars >>

\* print("waiting..."); time.sleep(20)
StagingSleep ==
    /\ pc = "staging_sleep"
    /\ polls < MaxPolls
    /\ polls' = polls + 1
    /\ pc' = "staging_poll"
    /\ UNCHANGED << err, failedCalls, faults, ssmFailed, calls, printed, project_name,
                    env_data, prefix, next_token, model_packages,
                    latest_model_package_arn, ss_i, accounts,
                    smVars, cpVars, cfVars >>

\* print(f"staging deployment completed."); display(HTML(...));
\* print(f"waiting for production endpoint deployment")
StagingDone ==
    /\ pc = "staging_done"
    /\ printed' = printed \cup {"staging deployment completed."}
    /\ polls' = 0
    /\ pc' = "prod_poll"
    /\ UNCHANGED << err, failedCalls, faults, ssmFailed, calls, project_name, env_data,
                    prefix, next_token, model_packages, latest_model_package_arn,
                    ss_i, accounts, smVars, cpVars, cfVars >>

\* The production loop evaluates its condition: one get_pipeline_state.
ProdPoll ==
    /\ Returns("prod_poll",
               IF ProdReached(StageStates) THEN "prod_done" ELSE "prod_sleep")
    /\ UNCHANGED << project_name, env_data, prefix, next_token, model_packages,
                    latest_model_package_arn, polls, ss_i, accounts,
                    smVars, cpVars, cfVars >>

\* print("waiting..."); time.sleep(20)
ProdSleep ==
    /\ pc = "prod_sleep"
    /\ polls < MaxPolls
    /\ polls' = polls + 1
    /\ pc' = "prod_poll"
    /\ UNCHANGED << err, failedCalls, faults, ssmFailed, calls, printed, project_name,
                    env_data, prefix, next_token, model_packages,
                    latest_model_package_arn, ss_i, accounts,
                    smVars, cpVars, cfVars >>

\* print(f"production deployment completed."); the clean-up loop begins.
ProdDone ==
    /\ pc = "prod_done"
    /\ printed' = printed \cup {"production deployment completed."}
    /\ ss_i' = 1
    /\ pc' = "list_stack_instances"
    /\ UNCHANGED << err, failedCalls, faults, ssmFailed, calls, project_name, env_data,
                    prefix, next_token, model_packages, latest_model_package_arn,
                    polls, accounts, smVars, cpVars, cfVars >>

(* ----------------------------- clean up ------------------------------- *)

\* The list the clean-up loop runs over:
\* The list with the production stack set first.
CleanUpListProdFirst ==
    << "deploy-" \o env_data["EnvTypeProdName"],
       "deploy-" \o env_data["EnvTypeStagingName"] >>

\* f"sagemaker-{project_name}-{project_id}-deploy-{env_data['EnvType...Name']}"
CleanUpList ==
    << "deploy-" \o env_data["EnvTypeStagingName"],
       "deploy-" \o env_data["EnvTypeProdName"] >>

\* ss of the current turn of the loop
ss == CleanUpList[ss_i]

\* time.sleep(180)
SleepSeconds == 180

\* boto3.session.Session().region_name
region_name == "region_name"

\* The calls of the clean-up loop.
CleanUpSites ==
    {"list_stack_instances", "delete_stack_instances", "sleep", "delete_stack_set"}

\* The call the loop makes at `site`, with its arguments.
Request(site) ==
    CASE site = "list_stack_instances" ->
            [call |-> site, StackSetName |-> ss]
      [] site = "delete_stack_instances" ->
            [call |-> site, StackSetName |-> ss, Accounts |-> accounts,
             Regions |-> << region_name >>, RetainStacks |-> FALSE]
      [] site = "sleep" ->
            [call |-> site, secs |-> SleepSeconds]
      [] site = "delete_stack_set" ->
            [call |-> site, StackSetName |-> ss]

\* The call at `site` is issued; it returns (ok) or raises, and Summaries
\* are the accounts of the stack instances a list_stack_instances returned.
Issue(site, ok, Summaries) ==
    cfLog' = Append(cfLog, [request |-> Request(site), ok |-> ok,
                            Summaries |-> Summaries])

\* accounts = [a["Account"] for a in
\*             cf.list_stack_instances(StackSetName=ss)["Summaries"]]
\* raises for a stack set that does not exist.
ListStackInstances ==
    /\ pc = "list_stack_instances"
    /\ IF ss \in StackSets /\ stackSetExists[ss]
       THEN /\ Returns("list_stack_instances", "delete_stack_instances")
            /\ accounts' = stackInstances[ss]
            /\ Issue("list_stack_instances", TRUE, stackInstances[ss])
       ELSE /\ Propagates("list_stack_instances")
            /\ Issue("list_stack_instances", FALSE, {})
            /\ UNCHANGED accounts
    /\ UNCHANGED << project_name, env_data, prefix, next_token, model_packages,
                    latest_model_package_arn, polls, ss_i,
                    smVars, cpVars, stackSetExists, stackInstances, deleting >>

\* r = cf.delete_stack_instances(StackSetName=ss, Accounts=accounts,
\*         Regions=[...], RetainStacks=False): the deletion runs remotely from
\* here on.  The call raises when there is no account to delete from.
DeleteStackInstances ==
    /\ pc = "delete_stack_instances"
    /\ IF accounts # {}
       THEN /\ Returns("delete_stack_instances", "sleep")
            /\ deleting' = [deleting EXCEPT ![ss] = accounts]
            /\ Issue("delete_stack_instances", TRUE, {})
       ELSE /\ Propagates("delete_stack_instances")
            /\ Issue("delete_stack_instances", FALSE, {})
            /\ UNCHANGED deleting
    /\ UNCHANGED << nbVars, smVars, cpVars, stackSetExists, stackInstances >>

\* The deletion of stack instances completes.
StackInstancesDeleted ==
    \E s \in StackSets :
        /\ deleting[s] # {}
        /\ stackInstances' = [stackInstances EXCEPT ![s] = @ \ deleting[s]]
        /\ deleting' = [deleting EXCEPT ![s] = {}]
        /\ UNCHANGED << ctlVars, nbVars, smVars, cpVars, stackSetExists, cfLog >>

\* time.sleep(180)
Sleep ==
    /\ pc = "sleep"
    /\ pc' = "delete_stack_set"
    /\ Issue("sleep", TRUE, {})
    /\ UNCHANGED << err, failedCalls, faults, ssmFailed, calls, printed, nbVars, smVars,
                    cpVars, stackSetExists, stackInstances, deleting >>

\* r = cf.delete_stack_set(StackSetName=ss): raises while an operation on the
\* stack set is in progress and while it has stack instances.  After the
\* last turn of the loop the notebook is done.
DeleteStackSet ==
    /\ pc = "delete_stack_set"
    /\ IF deleting[ss] = {} /\ stackInstances[ss] = {}
       THEN /\ Returns("delete_stack_set",
                       IF ss_i < Len(CleanUpList) THEN "list_stack_instances"
                       ELSE "done")
            /\ stackSetExists' = [stackSetExists EXCEPT ![ss] = FALSE]
            /\ ss_i' = IF ss_i < Len(CleanUpList) THEN ss_i + 1 ELSE ss_i
            /\ Issue("delete_stack_set", TRUE, {})
       ELSE /\ Propagates("delete_stack_set")
            /\ Issue("delete_stack_set", FALSE, {})
            /\ UNCHANGED << stackSetExists, ss_i >>
    /\ UNCHANGED << project_name, env_data, prefix, next_token, model_packages,
                    latest_model_package_arn, polls, accounts,
                    smVars, cpVars, stackInstances, deleting >>

(* ------------------------- failing SDK calls -------------------------- *)

\* An SDK call with no try/except around it fails: the exception ends the run.
SdkCallRaises ==
    \E site \in SdkSites :
        /\ ~Caught(site)
        /\ FaultBudget
        /\ pc = site
        /\ Raise(site)
        /\ calls' = calls \cup {site}
        /\ failedCalls' = failedCalls \cup {site}
        /\ faults' = faults + 1
        /\ IF site \in CleanUpSites
           THEN Issue(site, FALSE, {})
           ELSE UNCHANGED cfLog
        /\ UNCHANGED << ssmFailed, printed, nbVars, smVars, cpVars,
                        stackSetExists, stackInstances, deleting >>

(* --------------------------- specification ---------------------------- *)

Notebook ==
    \/ DescribeProject \/ DescribeDomain \/ ListTags \/ GetParameter
    \/ GetSession \/ DescribeProjectId \/ AssertNameLength
    \/ UploadTrain \/ UploadTest \/ Upsert \/ AddTags \/ Start \/ Describe
    \/ ExecutionWait \/ ListModelPackages \/ SelectLatest \/ UpdateModelPackage
    \/ GetPipelineState \/ StagingPoll \/ StagingSleep \/ StagingDone
    \/ ProdPoll \/ ProdSleep \/ ProdDone
    \/ ListStackInstances \/ DeleteStackInstances \/ Sleep \/ DeleteStackSet
    \/ SdkCallRaises

Remote ==
    \/ MlPipelineSucceeds \/ MlPipelineFails
    \/ CicdStarts \/ CicdDeploySucceeds \/ CicdTestSucceeds \/ CicdActionFails
    \/ ManualApprove \/ ManualReject
    \/ StackInstancesDeleted

\* A run of the notebook from top to bottom.
Next == Notebook \/ Remote

Spec == Init /\ [][Next]_vars

\* The approval cells run in a session that did not run the IrisPipeline
\* cells: after cell 3 the user goes on with the approval cell.
ResumeAtApproval ==
    /\ pc = "upload_train"
    /\ pc' = "list_model_packages"
    /\ UNCHANGED << err, failedCalls, faults, ssmFailed, calls, printed, nbVars, smVars,
                    cpVars, cfVars >>

NextResume == Next \/ ResumeAtApproval

SpecResume == Init /\ [][NextResume]_vars

(* ------------------- runs with unbounded wait loops ------------------- *)

\* print("waiting..."); time.sleep(20), once polls no longer counts the
\* sleeps: the staging loop goes round as often as its condition says.
StagingSleepOn ==
    /\ pc = "staging_sleep"
    /\ polls = MaxPolls
    /\ pc' = "staging_poll"
    /\ UNCHANGED << err, failedCalls, faults, ssmFailed, calls, printed, nbVars,
                    smVars, cpVars, cfVars >>

\* The same for the production loop.
ProdSleepOn ==
    /\ pc = "prod_sleep"
    /\ polls = MaxPolls
    /\ pc' = "prod_poll"
    /\ UNCHANGED << err, failedCalls, faults, ssmFailed, calls, printed, nbVars,
                    smVars, cpVars, cfVars >>

\* The statements of the notebook, each SDK call returning as the remote
\* state has it: the kernel runs the statement it is at.
Statement ==
    \/ DescribeProject \/ DescribeDomain \/ ListTags \/ GetParameter
    \/ GetSession \/ DescribeProjectId \/ AssertNameLength
    \/ UploadTrain \/ UploadTest \/ Upsert \/ AddTags \/ Start \/ Describe
    \/ ExecutionWait \/ ListModelPackages \/ SelectLatest \/ UpdateModelPackage
    \/ GetPipelineState \/ StagingPoll \/ StagingSleep \/ StagingDone
    \/ ProdPoll \/ ProdSleep \/ ProdDone
    \/ ListStackInstances \/ DeleteStackInstances \/ Sleep \/ DeleteStackSet
    \/ StagingSleepOn \/ ProdSleepOn

\* What the remote services do by themselves: executions that were started
\* run on.  The manual approval is a person's and is left out.
Automatic ==
    \/ MlPipelineSucceeds \/ MlPipelineFails
    \/ CicdStarts \/ CicdDeploySucceeds \/ CicdTestSucceeds \/ CicdActionFails
    \/ StackInstancesDeleted

NextLive == Next \/ StagingSleepOn \/ ProdSleepOn

\* A top-to-bottom run whose wait loops are not cut short: the kernel keeps
\* running statements and the remote executions keep running.
SpecLive ==
    /\ Init
    /\ [][NextLive]_vars
    /\ WF_vars(Statement)
    /\ WF_vars(Automatic)

(* ------------------------------ claims -------------------------------- *)

\* The paginator has returned its last page and not one page held a package.
ListingCameBackEmpty ==
    /\ "list_model_packages" \in calls
    /\ "list_model_packages" \notin failedCalls
    /\ pc # "list_model_packages"
    /\ model_packages = << >>

\* C1: when listing the group's model packages returns no package at all,
\* the approval cell raises its "No model package is found" failure,
\* update_model_package is never issued and no package of the group is
\* Approved.
C1_EmptyGroupRaises ==
    ListingCameBackEmpty =>
        /\ pc \in {"select", "failed"}
        /\ pc = "failed" => err = "NoModelPackage"
        /\ "update_model_package" \notin calls
        /\ \A i \in 1..Len(registry) : registry[i].ModelApprovalStatus # "Approved"

\* C1 witness: a run that listed an empty group and was ended by the failure.
C1_Witness ==
    /\ ListingCameBackEmpty
    /\ pc = "failed"
    /\ err = "NoModelPackage"

\* C2 as stated: every failure of an SDK call, those of ssm.get_parameter
\* included, ends the run with that exception; none is caught or replaced
\* by a value.
C2_EveryFailurePropagates ==
    (failedCalls # {} \/ ssmFailed # {}) =>
        /\ pc = "failed"
        /\ err \in failedCalls
        /\ ssmFailed = {}

\* C2 amended: a failure of ssm.get_parameter is caught by get_environment
\* and the variable is loaded as the empty string; a failure of any other
\* SDK call ends the run with that exception.
C2_OnlyGetParameterIsCaught ==
    /\ failedCalls # {} => pc = "failed" /\ failedCalls = {err}
    /\ "get_parameter" \notin failedCalls
    /\ \A v \in ssmFailed : v \in DOMAIN env_data /\ env_data[v] = ""

\* C2 witness: a run in which a get_parameter failed, went on, and was
\* ended later by the failure of another SDK call.
C2_Witness ==
    /\ ssmFailed # {}
    /\ pc = "failed"
    /\ err \in failedCalls

\* The step is update_model_package returning.
UpdateReturns ==
    /\ pc = "update_model_package"
    /\ pc' = "get_pipeline_state"

\* C3: the package passed to update_model_package is the one of the group
\* with the greatest creation time, the call sets its status to Approved,
\* and no step of the notebook changes the status of any other package.
C3_LatestPackageApproved ==
    [][ /\ UpdateReturns =>
              /\ latest_model_package_arn = Len(registry)
              /\ registry'[Len(registry)].ModelApprovalStatus = "Approved"
        /\ \A i \in 1..Len(registry) :
              registry'[i] # registry[i] => UpdateReturns /\ i = Len(registry)
      ]_vars

\* C3 witness: the group took more than one page to list and its latest
\* package has been approved by the notebook.
C3_Witness ==
    /\ Len(registry) > PageSize
    /\ "update_model_package" \in calls \ failedCalls
    /\ registry[Len(registry)].ModelApprovalStatus = "Approved"

\* C4: the staging loop exits, and "staging deployment completed." is
\* printed, only after a poll at which ApproveStagingDeployment's
\* latestExecution was InProgress; a poll that does not see this is followed
\* by the sleep and the sleep by another poll.
C4_StagingLoopExit ==
    [][ /\ pc' = "staging_done" /\ pc # "staging_done" =>
              /\ pc = "staging_poll"
              /\ actionStatus["ApproveStagingDeployment"] = "InProgress"
        /\ "staging deployment completed." \in printed' \ printed =>
              pc = "staging_done"
        /\ ( /\ pc = "staging_poll"
             /\ pc' # pc
             /\ actionStatus["ApproveStagingDeployment"] # "InProgress" ) =>
              pc' \in {"staging_sleep", "failed"}
        /\ pc = "staging_sleep" /\ pc' # pc => pc' = "staging_poll"
      ]_vars

\* C4 witness: the loop slept, polled again, saw the approval action in
\* progress and exited; the message is the next statement.
C4_Witness ==
    /\ pc = "staging_done"
    /\ polls > 0
    /\ actionStatus["ApproveStagingDeployment"] = "InProgress"

\* The CI/CD execution launched in this run has completed action a with `result`.
Logged(a, result) == \E i \in 1..Len(cicdLog) : cicdLog[i] = << a, result >>

\* C5: "production deployment completed." is printed only after the CI/CD
\* execution launched by this run's approval has completed DeployProd with
\* status Succeeded.
C5_ProdCompletedByThisRun ==
    "production deployment completed." \in printed =>
        Logged("DeployProd", "Succeeded")

\* The clean-up cell has run: to its end, or to the call of it that raised.
\* No call failed for a reason outside the program.
CleanUpHasRun ==
    /\ faults = 0
    /\ \/ pc = "done"
       \/ /\ pc = "failed"
          /\ err \in {"list_stack_instances", "delete_stack_instances",
                      "delete_stack_set"}

\* C6: after the clean-up cell has run, neither deployment stack set has
\* stack instances and neither stack set exists.
C6_CleanUpDeletesEverything ==
    CleanUpHasRun =>
        \A s \in StackSets : stackInstances[s] = {} /\ ~stackSetExists[s]

\* C7: an execution of the CI/CD pipeline completes its actions in the
\* order DeployStaging, TestStaging, ApproveStagingDeployment, DeployProd,
\* each after the one before it succeeded; DeployProd runs, and the
\* production stack set is deployed, only in an execution whose staging
\* deployment was manually approved.
C7_StagesInOrder ==
    /\ \A i \in 1..Len(cicdLog) :
          /\ cicdLog[i][1] = CicdActions[i]
          /\ i < Len(cicdLog) => cicdLog[i][2] = "Succeeded"
    /\ (cicd = "DeployProd" \/ Logged("DeployProd", "Succeeded")
                            \/ Logged("DeployProd", "Failed")) =>
          /\ Logged("DeployStaging", "Succeeded")
          /\ Logged("TestStaging", "Succeeded")
          /\ Logged("ApproveStagingDeployment", "Succeeded")

\* C7 witness: an execution went through all four actions.
C7_Witness ==
    /\ cicd = "succeeded"
    /\ Len(cicdLog) = Len(CicdActions)

\* The step registers a model package.
Registers == Len(registry') > Len(registry)

CallOrder ==
    << "describe_project", "describe_domain", "list_tags", "get_parameter",
       "get_session", "describe_project_id", "upload_train", "upload_test",
       "upsert", "add_tags", "start", "describe", "wait",
       "list_model_packages", "update_model_package", "get_pipeline_state",
       "staging_poll", "prod_poll", "list_stack_instances",
       "delete_stack_instances", "delete_stack_set" >>

\* C9: a call site is reached for the first time only when every call site
\* before it in the notebook has been called and has returned, and
\* update_model_package is issued only after execution.wait has returned
\* for the execution pipeline.start started, which has succeeded.
C9_CallsInOrder ==
    [][ /\ \A k \in 1..Len(CallOrder) :
              CallOrder[k] \in calls' \ calls =>
                  \A j \in 1..(k - 1) : CallOrder[j] \in calls \ failedCalls
        /\ "update_model_package" \in calls' \ calls =>
              /\ "wait" \in calls \ failedCalls
              /\ mlExec = "Succeeded"
      ]_vars

\* C9 witness: the notebook ran to its end: every call site was called.
C9_Witness ==
    /\ pc = "done"
    /\ \A k \in 1..Len(CallOrder) : CallOrder[k] \in calls

\* C10: with a project name of more than 15 characters the assertion ends
\* the run: prefix is never defined, no dataset is uploaded, no pipeline is
\* upserted or started and no model package is approved; whatever the
\* notebook creates, it creates under a name of at most 15 characters.
C10_NameLength ==
    /\ project_name > NameLimit =>
          /\ ~prefix
          /\ calls \cap CreatingSites = {}
          /\ mlExec = "none"
          /\ pc = "failed" /\ err \notin failedCalls => err = "AssertionError"
          /\ pc \in {"describe_project", "describe_domain", "list_tags",
                     "get_parameter", "get_session", "describe_project_id",
                     "assert", "failed"}
    /\ (prefix \/ calls \cap CreatingSites # {}) => project_name <= NameLimit

\* C10 witness: a name of more than 15 characters and the failed assertion.
C10_Witness ==
    /\ project_name > NameLimit
    /\ pc = "failed"
    /\ err = "AssertionError"

\* The notebook is in the staging wait loop.
InStagingLoop == pc \in {"staging_poll", "staging_sleep"}

\* The notebook is in the production wait loop.
InProdLoop == pc \in {"prod_poll", "prod_sleep"}

\* C11: if ApproveStagingDeployment is InProgress at some moment while the
\* staging wait loop runs, the loop eventually terminates, whatever happens
\* to the action afterwards.
C11_StagingLoopTerminates ==
    (InStagingLoop /\ actionStatus["ApproveStagingDeployment"] = "InProgress")
        ~> ~InStagingLoop

\* C12: both wait loops terminate for every terminal outcome of the CI/CD
\* execution: when the execution has ended with a failed action (deployment
\* or test failed, approval rejected, DeployProd failed), the staging loop
\* respectively the production loop eventually stops polling.
C12_LoopsStopOnFailure ==
    /\ (InStagingLoop /\ cicd = "failed") ~> ~InStagingLoop
    /\ (InProdLoop /\ cicd = "failed") ~> ~InProdLoop

\* The stack set name of the k-th stack set of the clean-up: staging, then
\* production.
CleanUpName(k) ==
    IF k = 1 THEN "deploy-" \o env_data["EnvTypeStagingName"]
    ELSE "deploy-" \o env_data["EnvTypeProdName"]

\* The i-th call of the clean-up is the one a complete clean-up makes there:
\* four calls for the staging stack set, then four for the production one.
CleanUpCallAt(i) ==
    LET k == ((i - 1) \div 4) + 1
        j == ((i - 1) % 4) + 1
        r == cfLog[i].request
    IN  CASE j = 1 ->
                r = [call |-> "list_stack_instances", StackSetName |-> CleanUpName(k)]
          [] j = 2 ->
                r = [call |-> "delete_stack_instances",
                     StackSetName |-> CleanUpName(k),
                     Accounts |-> cfLog[i - 1].Summaries,
                     Regions |-> << region_name >>,
                     RetainStacks |-> FALSE]
          [] j = 3 ->
                r = [call |-> "sleep", secs |-> SleepSeconds]
          [] j = 4 ->
                r = [call |-> "delete_stack_set", StackSetName |-> CleanUpName(k)]

\* C13: the clean-up issues, for the staging stack set and then for the
\* production stack set, list_stack_instances, delete_stack_instances for
\* exactly the listed accounts in the current region with RetainStacks
\* false, a 180 second sleep and delete_stack_set; a call that fails is the
\* last call issued, so a failure for the staging stack set leaves the
\* production stack set without any call.
C13_CleanUpInOrder ==
    /\ Len(cfLog) <= 8
    /\ \A i \in 1..Len(cfLog) :
          /\ CleanUpCallAt(i)
          /\ i < Len(cfLog) => cfLog[i].ok

\* A clean-up that ran to the end: all eight calls were issued.
C13_Witness ==
    /\ pc = "done"
    /\ Len(cfLog) = 8
    /\ cfLog[2].request.Accounts # cfLog[6].request.Accounts

====
